---- MODULE Spec2Model ----
(***************************************************************************)
(* Model of scraper.py of overland-availability-bot: the page parser       *)
(* (parse_availability_from_html), the paginating fetch (fetch_all_days),  *)
(* the snapshot file (load_previous_state / save_state) and the run        *)
(* (check_overland) with its notifier (send_telegram_message).             *)
(*                                                                         *)
(* A page is the list `lines` of scraper.py:42: trimmed non-empty lines.   *)
(* A line is a sequence of whitespace-separated words (strings).           *)
(***************************************************************************)
EXTENDS Integers, Sequences, FiniteSets, TLC

\* ------------------------------------------------------------------------
\* Bounds of the exploration
\* ------------------------------------------------------------------------
MaxLines == 4        \* longest line list explored by the parser specification
MaxEntries == 2      \* longest {date, spots} list explored by the state.json specification

\* ------------------------------------------------------------------------
\* Values
\* ------------------------------------------------------------------------
\* Python's None for `status` (a string otherwise) and for `spots` (an int
\* >= 0 otherwise, since it comes from int() of a \d+ match).
NoStatus == "None"
NoSpots == -1
\* Python's None for a date (max_date_seen, a failed strptime).
NoDate == <<0, 0, 0>>

\* END_DATE = date(2026, 5, 31); a date is the tuple <<year, month, day>>.
END_DATE == <<2026, 5, 31>>

\* range(1, 80): the pagination loop body runs for page_num = 1 .. 79.
PageLimit == 80

\* ------------------------------------------------------------------------
\* Words and their readings
\* ------------------------------------------------------------------------
Weekdays == {"Monday", "Tuesday", "Wednesday", "Thursday", "Friday",
             "Saturday", "Sunday"}

\* The decimal numerals that occur in the explored lines: "0", the day
\* numbers "1" .. "31" and the year "2026"; int() of each and the number of
\* digits of each.
DayWords ==
  << "1", "2", "3", "4", "5", "6", "7", "8", "9", "10",
     "11", "12", "13", "14", "15", "16", "17", "18", "19", "20",
     "21", "22", "23", "24", "25", "26", "27", "28", "29", "30", "31" >>
Numerals == {"0", "2026"} \cup {DayWords[n] : n \in 1..31}
IntOf(w) ==
  CASE w = "0" -> 0
    [] w = "2026" -> 2026
    [] OTHER -> CHOOSE n \in 1..31 : DayWords[n] = w
NumDigits(w) ==
  IF w = "2026" THEN 4 ELSE IF IntOf(w) < 10 THEN 1 ELSE 2

\* The words of exactly three letters that occur in the explored lines
\* ([A-Za-z]{3} followed by \s+).
MonthWords == <<"Jan", "Feb", "Mar", "Apr", "May", "Jun">>
ThreeLetterWords == {MonthWords[n] : n \in 1..6} \cup {"Foo"}

\* %b of strptime: month abbreviation to month number, 0 when it is none.
MonthOf(w) ==
  CASE w = "Jan" -> 1 [] w = "Feb" -> 2 [] w = "Mar" -> 3 [] w = "Apr" -> 4
    [] w = "May" -> 5 [] w = "Jun" -> 6 [] w = "Jul" -> 7 [] w = "Aug" -> 8
    [] w = "Sep" -> 9 [] w = "Oct" -> 10 [] w = "Nov" -> 11 [] w = "Dec" -> 12
    [] OTHER -> 0

IsLeap(y) == (y % 4 = 0 /\ y % 100 # 0) \/ y % 400 = 0
DaysInMonth(y, m) ==
  CASE m \in {1, 3, 5, 7, 8, 10, 12} -> 31
    [] m \in {4, 6, 9, 11} -> 30
    [] m = 2 -> IF IsLeap(y) THEN 29 ELSE 28
    [] OTHER -> 0

\* datetime.strptime(f"{day} {mon_abbr} {year}", "%d %b %Y").date():
\* the date, or NoDate where strptime raises ValueError.
StrpDate(day, mon, year) ==
  LET y == IntOf(year)
      m == MonthOf(mon)
      d == IntOf(day)
  IN IF m # 0 /\ y >= 1 /\ d >= 1 /\ d <= DaysInMonth(y, m)
       THEN <<y, m, d>>
       ELSE NoDate

\* Order of datetime.date values.
DateLT(a, b) ==
  \/ a[1] < b[1]
  \/ a[1] = b[1] /\ a[2] < b[2]
  \/ a[1] = b[1] /\ a[2] = b[2] /\ a[3] < b[3]
DateLE(a, b) == a = b \/ DateLT(a, b)

\* ------------------------------------------------------------------------
\* Line tests of parse_availability_from_html
\* ------------------------------------------------------------------------
\* Positions at which DATE_PATTERN matches in a line: weekday, 1-2 digit
\* day, three letters, 4 digit year.
DateMatchAt(line, i) ==
  /\ i + 3 <= Len(line)
  /\ line[i] \in Weekdays
  /\ line[i + 1] \in Numerals /\ NumDigits(line[i + 1]) <= 2
  /\ line[i + 2] \in ThreeLetterWords
  /\ line[i + 3] \in Numerals /\ NumDigits(line[i + 3]) = 4

\* DATE_PATTERN.search(line) is not None
IsHeader(line) == \E i \in 1..Len(line) : DateMatchAt(line, i)

\* The date of a header line: groups of the leftmost match, through strptime.
HeaderDate(line) ==
  LET i == CHOOSE k \in 1..Len(line) :
             DateMatchAt(line, k) /\ \A j \in 1..(k - 1) : ~DateMatchAt(line, j)
  IN StrpDate(line[i + 1], line[i + 2], line[i + 3])

\* "Fully Booked" in line
HasFullyBooked(line) ==
  \E i \in 1..(Len(line) - 1) : line[i] = "Fully" /\ line[i + 1] = "Booked"

\* "Available" in line
HasAvailable(line) == \E i \in 1..Len(line) : line[i] = "Available"

\* re.search(r"(\d+)\s+Available", line): positions of a match
CountMatchAt(line, i) ==
  i + 1 <= Len(line) /\ line[i] \in Numerals /\ line[i + 1] = "Available"
HasCount(line) == \E i \in 1..Len(line) : CountMatchAt(line, i)
\* int(m2.group(1)) of the leftmost match
CountOf(line) ==
  LET i == CHOOSE k \in 1..Len(line) :
             CountMatchAt(line, k) /\ \A j \in 1..(k - 1) : ~CountMatchAt(line, j)
  IN IntOf(line[i])

\* ------------------------------------------------------------------------
\* parse_availability_from_html, as functions
\* ------------------------------------------------------------------------
\* StepStatus with "Fully Booked" guarded by `status is None` as well.
StepStatusFirstWins(status, line) ==
  IF status # NoStatus THEN status
  ELSE IF HasFullyBooked(line) THEN "Fully Booked"
  ELSE IF HasAvailable(line) THEN "Available"
  ELSE status

\* StepStatus without the `status is None` guard of line 75.
StepStatusOverwrites(status, line) ==
  IF HasFullyBooked(line) THEN "Fully Booked"
  ELSE IF HasAvailable(line) THEN "Available"
  ELSE status

\* One pass of lines 73-77 over a line of block[1:]: the new `status`.
StepStatus(status, line) ==
  IF HasFullyBooked(line) THEN "Fully Booked"
  ELSE IF HasAvailable(line) /\ status = NoStatus THEN "Available"
  ELSE status

\* StepSpots keeping the first count found.
StepSpotsFirstWins(spots, line) ==
  IF HasAvailable(line) /\ HasCount(line) /\ spots = NoSpots THEN CountOf(line)
  ELSE spots

\* One pass of lines 79-82 over a line of block[1:]: the new `spots`.
StepSpots(spots, line) ==
  IF HasAvailable(line) /\ HasCount(line) THEN CountOf(line) ELSE spots

\* date_indices of lines 47-50: the indices of the header lines, ascending.
RECURSIVE DateIndicesFrom(_, _)
DateIndicesFrom(lines, i) ==
  IF i > Len(lines) THEN <<>>
  ELSE IF IsHeader(lines[i]) THEN <<i>> \o DateIndicesFrom(lines, i + 1)
  ELSE DateIndicesFrom(lines, i + 1)
DateIndices(lines) == DateIndicesFrom(lines, 1)

\* EndIdx ending every block at the end of the input.
EndIdxToEnd(lines, date_indices, idx) == Len(lines) + 1

\* end_idx and block of lines 53-54 (Python indices are these minus one).
EndIdx(lines, date_indices, idx) ==
  IF idx + 1 <= Len(date_indices) THEN date_indices[idx + 1] ELSE Len(lines) + 1
BlockOf(lines, date_indices, idx) ==
  SubSeq(lines, date_indices[idx], EndIdx(lines, date_indices, idx) - 1)

\* The loop of lines 72-82 over block[pos..]: the final (status, spots).
RECURSIVE ScanBlock(_, _, _, _)
ScanBlock(block, pos, status, spots) ==
  IF pos > Len(block) THEN <<status, spots>>
  ELSE ScanBlock(block, pos + 1, StepStatus(status, block[pos]),
                 StepSpots(spots, block[pos]))

\* The tuple (dt, status, spots) appended at line 84.
Rec(dt, status, spots) == [dt |-> dt, status |-> status, spots |-> spots]

\* The loop of lines 52-84 from block idx on: the records appended.
RECURSIVE ParseFrom(_, _, _)
ParseFrom(lines, date_indices, idx) ==
  IF idx > Len(date_indices) THEN <<>>
  ELSE LET block == BlockOf(lines, date_indices, idx)
           dt == HeaderDate(block[1])
           ss == ScanBlock(block, 2, NoStatus, NoSpots)
       IN (IF dt = NoDate THEN <<>> ELSE <<Rec(dt, ss[1], ss[2])>>)
            \o ParseFrom(lines, date_indices, idx + 1)

parse_availability_from_html(lines) == ParseFrom(lines, DateIndices(lines), 1)

\* ------------------------------------------------------------------------
\* fetch_all_days: the merge of the pages into all_by_date
\* ------------------------------------------------------------------------
\* all_by_date is a function from dates to <<status, spots>>.
EmptyDict == [d \in {} |-> <<NoStatus, NoSpots>>]

\* DictPut keeping the entry a date already has (setdefault).
DictPutKeepsFirst(all_by_date, r) ==
  [d \in DOMAIN all_by_date \cup {r.dt} |->
     IF d \in DOMAIN all_by_date THEN all_by_date[d] ELSE <<r.status, r.spots>>]

\* all_by_date[dt] = (status, spots)
DictPut(all_by_date, r) ==
  [d \in DOMAIN all_by_date \cup {r.dt} |->
     IF d = r.dt THEN <<r.status, r.spots>> ELSE all_by_date[d]]

\* The loops of lines 114-115 and 136-139 from record i on: the dict after.
RECURSIVE MergePage(_, _, _)
MergePage(all_by_date, page_results, i) ==
  IF i > Len(page_results) THEN all_by_date
  ELSE MergePage(DictPut(all_by_date, page_results[i]), page_results, i + 1)

\* new_dates of lines 135-139 from record i on.
RECURSIVE NewDates(_, _, _)
NewDates(all_by_date, page_results, i) ==
  IF i > Len(page_results) THEN FALSE
  ELSE \/ page_results[i].dt \notin DOMAIN all_by_date
       \/ NewDates(DictPut(all_by_date, page_results[i]), page_results, i + 1)

\* max(all_by_date.keys()) of a non-empty dict
MaxDate(dates) == CHOOSE d \in dates : \A e \in dates : DateLE(e, d)
MinDate(dates) == CHOOSE d \in dates : \A e \in dates : DateLE(d, e)

\* Lines 161-163: the dict as a list of tuples sorted by date.
RECURSIVE SortedDays(_, _)
SortedDays(all_by_date, dates) ==
  IF dates = {} THEN <<>>
  ELSE LET d == MinDate(dates)
       IN <<Rec(d, all_by_date[d][1], all_by_date[d][2])>>
            \o SortedDays(all_by_date, dates \ {d})

\* LoopBreaks without the test of END_DATE of lines 145-147.
LoopBreaksNoHorizon(all_by_date, max_date_seen, page_results) ==
  LET merged == MergePage(all_by_date, page_results, 1)
      current_max == MaxDate(DOMAIN merged)
  IN \/ page_results = <<>>
     \/ max_date_seen # NoDate /\ DateLE(current_max, max_date_seen)
     \/ ~NewDates(all_by_date, page_results, 1)

\* The breaks of lines 131-159 after a page of the loop was parsed:
\* TRUE when the loop is left at this page.
LoopBreaks(all_by_date, max_date_seen, page_results) ==
  LET merged == MergePage(all_by_date, page_results, 1)
      current_max == MaxDate(DOMAIN merged)
  IN \/ page_results = <<>>
     \/ DateLE(END_DATE, current_max)
     \/ max_date_seen # NoDate /\ DateLE(current_max, max_date_seen)
     \/ ~NewDates(all_by_date, page_results, 1)

\* ------------------------------------------------------------------------
\* check_overland: window filter and state representation
\* ------------------------------------------------------------------------
\* IsAvailable without the test of the status text.
IsAvailableBySpots(r) ==
  /\ r.status # NoStatus
  /\ (r.spots = NoSpots \/ r.spots > 0)

\* Line 257: status and "Available" in status and (spots is None or spots > 0)
IsAvailable(r) ==
  /\ r.status # NoStatus
  /\ r.status = "Available"
  /\ (r.spots = NoSpots \/ r.spots > 0)

\* Interesting without the window test of line 253.
RECURSIVE InterestingNoWindow(_, _, _)
InterestingNoWindow(all_days, start, i) ==
  IF i > Len(all_days) THEN <<>>
  ELSE (IF IsAvailable(all_days[i]) THEN <<all_days[i]>> ELSE <<>>)
         \o InterestingNoWindow(all_days, start, i + 1)

\* Lines 251-258: the records of all_days, from i on, inside the window
\* and available.
RECURSIVE Interesting(_, _, _)
Interesting(all_days, start, i) ==
  IF i > Len(all_days) THEN <<>>
  ELSE (IF DateLE(start, all_days[i].dt) /\ DateLE(all_days[i].dt, END_DATE)
           /\ IsAvailable(all_days[i])
          THEN <<all_days[i]>> ELSE <<>>)
         \o Interesting(all_days, start, i + 1)

\* sorted(interesting, key=lambda x: x[0]): stable insertion sort by date.
RECURSIVE InsertByDate(_, _)
InsertByDate(sorted, r) ==
  IF sorted = <<>> THEN <<r>>
  ELSE IF DateLT(r.dt, Head(sorted).dt) THEN <<r>> \o sorted
  ELSE <<Head(sorted)>> \o InsertByDate(Tail(sorted), r)
RECURSIVE SortByDate(_, _)
SortByDate(seq, i) ==
  IF i = 0 THEN <<>> ELSE InsertByDate(SortByDate(seq, i - 1), seq[i])

\* dt.isoformat(): "YYYY-MM-DD" as its ten characters.
Digit(n) ==
  CASE n = 0 -> "0" [] n = 1 -> "1" [] n = 2 -> "2" [] n = 3 -> "3"
    [] n = 4 -> "4" [] n = 5 -> "5" [] n = 6 -> "6" [] n = 7 -> "7"
    [] n = 8 -> "8" [] n = 9 -> "9"
IsoFormat(dt) ==
  << Digit(dt[1] \div 1000), Digit((dt[1] \div 100) % 10),
     Digit((dt[1] \div 10) % 10), Digit(dt[1] % 10), "-",
     Digit(dt[2] \div 10), Digit(dt[2] % 10), "-",
     Digit(dt[3] \div 10), Digit(dt[3] % 10) >>

\* Lines 263-266: [{"date": dt.isoformat(), "spots": spots} for ... sorted]
CurrentState(interesting) ==
  LET srt == SortByDate(interesting, Len(interesting))
  IN [i \in 1..Len(srt) |-> [date |-> IsoFormat(srt[i].dt), spots |-> srt[i].spots]]

\* ------------------------------------------------------------------------
\* state.json: load_previous_state and save_state
\* ------------------------------------------------------------------------
\* A JSON scalar of the file: null or a number.
JNull == [t |-> "null", n |-> 0]
JNum(k) == [t |-> "number", n |-> k]

\* json.dump of one {"date", "spots"} dict, and json.load of it.
DumpEntry(e) ==
  [date |-> e.date, spots |-> IF e.spots = NoSpots THEN JNull ELSE JNum(e.spots)]
LoadEntry(j) ==
  [date |-> j.date, spots |-> IF j.spots.t = "null" THEN NoSpots ELSE j.spots.n]

\* The content of state.json:
\*   kind "absent"   the file does not exist
\*   kind "invalid"  the file is not JSON
\*   kind "array"    the file is JSON, but not an object
\*   kind "object"   a JSON object; key tells whether it has "availabilities",
\*                   val is the value under it: t is "list" (with its items),
\*                   "null" or "number".
FileOf(kind, key, t, items) ==
  [kind |-> kind, key |-> key, val |-> [t |-> t, items |-> items]]
AbsentFile == FileOf("absent", FALSE, "null", <<>>)

\* What load_previous_state returns: Python None, a list, or a number.
PyNone == [t |-> "none", items |-> <<>>]
PyList(items) == [t |-> "list", items |-> items]

\* load_previous_state returning None for a file with an empty list
\* (`data.get("availabilities") or None`).
load_previous_state_EmptyIsNone(f) ==
  CASE f.kind = "absent" -> PyNone
    [] f.kind = "invalid" -> PyNone
    [] f.kind = "array" -> PyNone
    [] f.kind = "object" ->
         IF ~f.key THEN PyNone
         ELSE IF f.val.t = "null" THEN PyNone
         ELSE IF f.val.t = "list"
           THEN IF f.val.items = <<>> THEN PyNone
                ELSE PyList([i \in 1..Len(f.val.items) |-> LoadEntry(f.val.items[i])])
         ELSE [t |-> f.val.t, items |-> <<>>]

\* load_previous_state()
load_previous_state(f) ==
  CASE f.kind = "absent" -> PyNone               \* not STATE_FILE.exists()
    [] f.kind = "invalid" -> PyNone              \* json.load raises
    [] f.kind = "array" -> PyNone                \* data.get raises AttributeError
    [] f.kind = "object" ->
         IF ~f.key THEN PyList(<<>>)             \* the default of data.get
         ELSE IF f.val.t = "null" THEN PyNone
         ELSE IF f.val.t = "list"
           THEN PyList([i \in 1..Len(f.val.items) |-> LoadEntry(f.val.items[i])])
         ELSE [t |-> f.val.t, items |-> <<>>]

\* save_state writing only the dates.
save_state_DropsSpots(avail_list) ==
  FileOf("object", TRUE, "list",
         [i \in 1..Len(avail_list) |-> [date |-> avail_list[i].date, spots |-> JNull]])

\* save_state(avail_list): the content of state.json after it.
save_state(avail_list) ==
  FileOf("object", TRUE, "list",
         [i \in 1..Len(avail_list) |-> DumpEntry(avail_list[i])])

\* state.json holds a snapshot: an object with a list under "availabilities".
IsSnapshot(f) == f.kind = "object" /\ f.key /\ f.val.t = "list"
\* The {date, spots} sequence a snapshot file holds.
SnapshotOf(f) ==
  [i \in 1..Len(f.val.items) |->
     [date |-> f.val.items[i].date,
      spots |-> IF f.val.items[i].spots = JNull THEN NoSpots
                ELSE f.val.items[i].spots.n]]

\* ------------------------------------------------------------------------
\* The explored inputs
\* ------------------------------------------------------------------------
H30 == <<"Saturday", "30", "May", "2026">>
H31 == <<"Sunday", "31", "May", "2026">>
HJun1 == <<"Monday", "1", "Jun", "2026">>
HBad == <<"Wednesday", "31", "Jun", "2026">>      \* 31 June: strptime raises
LAvailable == <<"Available">>
L1Available == <<"1", "Available">>
L3Available == <<"3", "Available">>
L0Available == <<"0", "Available">>
LFullyBooked == <<"Fully", "Booked">>
LOther == <<"Booked">>
LBoth == <<"Fully", "Booked", "3", "Available">>

\* The lines the explored line lists are made of.
LineSet == {H30, H31, HBad, LAvailable, L1Available, L3Available,
            L0Available, LFullyBooked, LOther, LBoth}
SeqsUpTo(S, n) == UNION {[1..k -> S] : k \in 0..n}

\* The pages the site serves in the explored runs.
PageEmpty == <<>>
PageOne == <<H30, L1Available>>
PageTwo == <<H30, L3Available, H31, LAvailable>>
PageFull == <<H30, LFullyBooked>>
PageMixed == <<H31, L0Available, HJun1, L1Available>>
PageSet == {PageEmpty, PageOne, PageTwo, PageFull, PageMixed}

\* The calendar site: the days of 2026 as pages.  Day n of the year as a
\* date, from month m on, and its header line.
RECURSIVE DateOfDay(_, _)
DateOfDay(n, m) ==
  IF n <= DaysInMonth(2026, m) THEN <<2026, m, n>>
  ELSE DateOfDay(n - DaysInMonth(2026, m), m + 1)
WeekdaySeq == <<"Monday", "Tuesday", "Wednesday", "Thursday", "Friday",
                "Saturday", "Sunday">>
Hdr(n) ==
  LET dt == DateOfDay(n, 1)
  IN <<WeekdaySeq[((n + 2) % 7) + 1], DayWords[dt[3]], MonthWords[dt[2]], "2026">>
\* 31 May as a day of the year.
HorizonDay == 31 + 28 + 31 + 30 + 31

\* The page of the k-th GET when the site pages forward: the day of the page
\* before it once more, now fully booked, and the next day, listed twice
\* with two counts.
ProgressPage(k) ==
  (IF k > 1 THEN <<Hdr(k), LFullyBooked>> ELSE <<>>)
    \o <<Hdr(k + 1), L1Available, Hdr(k + 1), L3Available>>
\* 1 January, which no ProgressPage lists, and 31 May, the END_DATE.
EarlyPage == <<Hdr(1), LAvailable>>
LastPage == <<Hdr(HorizonDay), LAvailable>>
\* What the calendar site may answer to the k-th GET of a run.
CalendarPages(k) == {ProgressPage(k), PageEmpty, EarlyPage, LastPage}

\* The values of date.today() in the explored runs.
StartDates == {<<2026, 5, 30>>, <<2026, 5, 31>>}

\* The contents of state.json before the first explored run.
InitFiles ==
  { AbsentFile,
    FileOf("invalid", FALSE, "null", <<>>),
    FileOf("array", FALSE, "null", <<>>),
    FileOf("object", FALSE, "null", <<>>),
    FileOf("object", TRUE, "null", <<>>),
    FileOf("object", TRUE, "number", <<>>),
    save_state(<<>>),
    save_state(<<[date |-> IsoFormat(<<2026, 5, 30>>), spots |-> 1]>>),
    save_state(<<[date |-> IsoFormat(<<2026, 5, 31>>), spots |-> NoSpots],
                 [date |-> IsoFormat(<<2026, 5, 30>>), spots |-> 3]>>) }

\* ------------------------------------------------------------------------
\* State
\* ------------------------------------------------------------------------
VARIABLES
  \* check_overland and fetch_all_days
  pc,              \* position in check_overland; "idle" between runs
  file,            \* the content of state.json
  start_date,      \* start_date of the run (date.today())
  fetched,         \* the pages the run's GETs returned, in order
  all_by_date,     \* fetch_all_days: all_by_date
  max_date_seen,   \* fetch_all_days: max_date_seen
  page_num,        \* fetch_all_days: page_num of the next loop iteration
  all_days,        \* check_overland: all_days
  interesting,     \* check_overland: interesting
  current_state,   \* check_overland: current_state
  previous_state,  \* check_overland: previous_state
  decision,        \* the branch of lines 270-294 the run took
  outcome,         \* how the run ended: "ok", "fetch_error", "delivery_error"
  ops,             \* the snapshot reads/writes and notifier calls of the run
  delivered,       \* the messages of the run the notifier delivered
  file_at_start,   \* state.json when the run started
  prev,            \* the run before: its pages, window, decision, outcome
  site,            \* the site the runs fetch from: "listing" or "calendar"
  notified,        \* the state of the last notification that was delivered
  \* parse_availability_from_html, line by line
  p_pc,            \* position in parse_availability_from_html
  lines,           \* lines
  date_indices,    \* date_indices
  idx,             \* idx of the loop of line 52 (from 1)
  pos,             \* position in block of the loop of line 72
  status,          \* status
  spots,           \* spots
  results          \* results

runVars == <<pc, file, start_date, fetched, all_by_date, max_date_seen,
             page_num, all_days, interesting, current_state, previous_state,
             decision, outcome, ops, delivered, file_at_start, prev, site, notified>>
parseVars == <<p_pc, lines, date_indices, idx, pos, status, spots, results>>
vars == <<runVars, parseVars>>

\* The state of the last delivered notification before the explored runs:
\* the one a snapshot in state.json was saved for, none with no snapshot.
NotifiedBefore(f) ==
  IF IsSnapshot(f) THEN [sent |-> TRUE, state |-> SnapshotOf(f)]
  ELSE [sent |-> FALSE, state |-> <<>>]

NoRun == [ran |-> FALSE, fetched |-> <<>>, start |-> NoDate,
          decision |-> "none", outcome |-> "none", current_state |-> <<>>]

RunInit ==
  /\ pc = "idle"
  /\ file \in InitFiles
  /\ start_date = MinDate(StartDates)
  /\ fetched = <<>>
  /\ all_by_date = EmptyDict
  /\ max_date_seen = NoDate
  /\ page_num = 0
  /\ all_days = <<>>
  /\ interesting = <<>>
  /\ current_state = <<>>
  /\ previous_state = PyNone
  /\ decision = "none"
  /\ outcome = "none"
  /\ ops = <<>>
  /\ delivered = <<>>
  /\ file_at_start = file
  /\ prev = NoRun
  /\ site = "listing"
  /\ notified = NotifiedBefore(file)

ParseIdle ==
  /\ p_pc = "off"
  /\ lines = <<>>
  /\ date_indices = <<>>
  /\ idx = 0
  /\ pos = 0
  /\ status = NoStatus
  /\ spots = NoSpots
  /\ results = <<>>

Init == RunInit /\ ParseIdle

\* ------------------------------------------------------------------------
\* check_overland, step by step
\* ------------------------------------------------------------------------
\* The text of send_availability_list_message and send_no_availability_message,
\* as the values it is made of.
ListMessage(start, recs) ==
  [kind |-> "list", start |-> start, items |-> SortByDate(recs, Len(recs))]
NoneMessage(start) == [kind |-> "none", start |-> start, items |-> <<>>]

\* The {date, spots} sequence a message lists.
StateOfMessage(msg) == CurrentState(msg.items)

\* The run is over: check_overland returned or raised.
EndRun(how) ==
  /\ pc' = "idle"
  /\ outcome' = how

\* Lines 242-244: a run starts; date.today() does not go back.
StartRun ==
  /\ pc = "idle"
  /\ \E d \in StartDates : DateLE(start_date, d) /\ start_date' = d
  /\ prev' = IF outcome = "none" THEN NoRun
             ELSE [ran |-> TRUE, fetched |-> fetched, start |-> start_date,
                   decision |-> decision, outcome |-> outcome,
                   current_state |-> current_state]
  /\ pc' = "fetch_initial"
  /\ fetched' = <<>>
  /\ all_by_date' = EmptyDict
  /\ max_date_seen' = NoDate
  /\ page_num' = 0
  /\ all_days' = <<>>
  /\ interesting' = <<>>
  /\ current_state' = <<>>
  /\ previous_state' = PyNone
  /\ decision' = "none"
  /\ outcome' = "none"
  /\ ops' = <<>>
  /\ delivered' = <<>>
  /\ file_at_start' = file
  /\ UNCHANGED <<file, site, notified>>

\* The pages the next GET of the run may return.
ServedPages ==
  IF site = "calendar" THEN CalendarPages(Len(fetched) + 1) ELSE PageSet

\* Lines 109-117: the initial page is fetched, parsed and merged.
FetchInitial ==
  /\ pc = "fetch_initial"
  /\ \E page \in ServedPages :
       LET page_results == parse_availability_from_html(page)
           merged == MergePage(EmptyDict, page_results, 1)
       IN /\ fetched' = <<page>>
          /\ all_by_date' = merged
          /\ max_date_seen' = IF DOMAIN merged # {} THEN MaxDate(DOMAIN merged)
                              ELSE NoDate
  /\ page_num' = 1
  /\ pc' = "paging"
  /\ UNCHANGED <<file, start_date, all_days, interesting, current_state,
                 previous_state, decision, outcome, ops, delivered,
                 file_at_start, prev, site, notified>>

\* Lines 109-110: the initial GET fails; raise_for_status raises out of
\* fetch_all_days and check_overland.
FetchInitialFails ==
  /\ pc = "fetch_initial"
  /\ EndRun("fetch_error")
  /\ UNCHANGED <<file, start_date, fetched, all_by_date, max_date_seen,
                 page_num, all_days, interesting, current_state,
                 previous_state, decision, ops, delivered, file_at_start, prev, site, notified>>

\* Lines 120-166: one iteration of the pagination loop; when the loop is
\* left, fetch_all_days returns the sorted list.
FetchNext ==
  /\ pc = "paging"
  /\ page_num < PageLimit
  /\ \E page \in ServedPages :
       LET page_results == parse_availability_from_html(page)
           merged == IF page_results = <<>> THEN all_by_date
                     ELSE MergePage(all_by_date, page_results, 1)
           breaks == LoopBreaks(all_by_date, max_date_seen, page_results)
           leaves == breaks \/ page_num + 1 >= PageLimit
       IN /\ fetched' = Append(fetched, page)
          /\ all_by_date' = merged
          /\ max_date_seen' = IF breaks THEN max_date_seen
                              ELSE MaxDate(DOMAIN merged)
          /\ page_num' = IF breaks THEN page_num ELSE page_num + 1
          /\ pc' = IF leaves THEN "filter" ELSE "paging"
          /\ all_days' = IF leaves THEN SortedDays(merged, DOMAIN merged)
                         ELSE all_days
  /\ UNCHANGED <<file, start_date, interesting, current_state, previous_state,
                 decision, outcome, ops, delivered, file_at_start, prev, site, notified>>

\* FetchNextFails swallowing the error and going on with the pages so far.
FetchNextFailsGoesOn ==
  /\ pc = "paging"
  /\ page_num < PageLimit
  /\ outcome' = "fetch_error"
  /\ pc' = "filter"
  /\ all_days' = SortedDays(all_by_date, DOMAIN all_by_date)
  /\ UNCHANGED <<file, start_date, fetched, all_by_date, max_date_seen,
                 page_num, interesting, current_state,
                 previous_state, decision, ops, delivered, file_at_start, prev, site, notified>>

\* Lines 125-126: a GET of the loop fails; the exception leaves the run.
FetchNextFails ==
  /\ pc = "paging"
  /\ page_num < PageLimit
  /\ EndRun("fetch_error")
  /\ UNCHANGED <<file, start_date, fetched, all_by_date, max_date_seen,
                 page_num, all_days, interesting, current_state,
                 previous_state, decision, ops, delivered, file_at_start, prev, site, notified>>

\* Lines 250-266: the window filter and the state representation.
Filter ==
  /\ pc = "filter"
  /\ interesting' = Interesting(all_days, start_date, 1)
  /\ current_state' = CurrentState(interesting')
  /\ pc' = "load"
  /\ UNCHANGED <<file, start_date, fetched, all_by_date, max_date_seen,
                 page_num, all_days, previous_state, decision, outcome, ops,
                 delivered, file_at_start, prev, site, notified>>

\* Line 268: previous_state = load_previous_state()
Load ==
  /\ pc = "load"
  /\ previous_state' = load_previous_state(file)
  /\ ops' = Append(ops, "read")
  /\ pc' = "decide"
  /\ UNCHANGED <<file, start_date, fetched, all_by_date, max_date_seen,
                 page_num, all_days, interesting, current_state, decision,
                 outcome, delivered, file_at_start, prev, site, notified>>

\* FirstRunSave writing the file only when there is something to list.
FirstRunSaveIfAny ==
  /\ pc = "decide"
  /\ previous_state = PyNone
  /\ decision' = "FirstRun"
  /\ file' = IF current_state # <<>> THEN save_state(current_state) ELSE file
  /\ ops' = IF current_state # <<>> THEN Append(ops, "write") ELSE ops
  /\ pc' = "first_saved"
  /\ UNCHANGED <<start_date, fetched, all_by_date, max_date_seen, page_num,
                 all_days, interesting, current_state, previous_state,
                 outcome, delivered, file_at_start, prev, site, notified>>

\* Lines 271-273: first run, the state is saved before anything is sent.
FirstRunSave ==
  /\ pc = "decide"
  /\ previous_state = PyNone
  /\ decision' = "FirstRun"
  /\ file' = save_state(current_state)
  /\ ops' = Append(ops, "write")
  /\ pc' = "first_saved"
  /\ UNCHANGED <<start_date, fetched, all_by_date, max_date_seen, page_num,
                 all_days, interesting, current_state, previous_state,
                 outcome, delivered, file_at_start, prev, site, notified>>

\* Lines 275-277, 280: first run with availability, the notifier delivers.
FirstRunNotify ==
  /\ pc = "first_saved"
  /\ interesting # <<>>
  /\ ops' = Append(ops, "send")
  /\ delivered' = Append(delivered, ListMessage(start_date, interesting))
  /\ notified' = [sent |-> TRUE,
                  state |-> StateOfMessage(ListMessage(start_date, interesting))]
  /\ EndRun("ok")
  /\ UNCHANGED <<file, start_date, fetched, all_by_date, max_date_seen,
                 page_num, all_days, interesting, current_state,
                 previous_state, decision, file_at_start, prev, site>>

\* Lines 275-277 with lines 204-205 raising: the notifier fails.
FirstRunNotifyFails ==
  /\ pc = "first_saved"
  /\ interesting # <<>>
  /\ ops' = Append(ops, "send")
  /\ EndRun("delivery_error")
  /\ UNCHANGED <<file, start_date, fetched, all_by_date, max_date_seen,
                 page_num, all_days, interesting, current_state,
                 previous_state, decision, delivered, file_at_start, prev, site, notified>>

\* Lines 278-280: first run without availability, nothing is sent.
FirstRunSilent ==
  /\ pc = "first_saved"
  /\ interesting = <<>>
  /\ EndRun("ok")
  /\ UNCHANGED <<file, start_date, fetched, all_by_date, max_date_seen,
                 page_num, all_days, interesting, current_state,
                 previous_state, decision, ops, delivered, file_at_start, prev, site, notified>>

\* SameState comparing the dates only, not the spots.
SameStateDatesOnly(current, previous) ==
  /\ previous.t = "list"
  /\ Len(previous.items) = Len(current)
  /\ \A i \in 1..Len(current) : previous.items[i].date = current[i].date

\* Line 283: current_state == previous_state
SameState(current, previous) == previous = PyList(current)

\* Unchanged rewriting the file with the unchanged state.
UnchangedRewrites ==
  /\ pc = "decide"
  /\ previous_state # PyNone
  /\ SameState(current_state, previous_state)
  /\ decision' = "Unchanged"
  /\ file' = save_state(current_state)
  /\ ops' = Append(ops, "write")
  /\ EndRun("ok")
  /\ UNCHANGED <<start_date, fetched, all_by_date, max_date_seen,
                 page_num, all_days, interesting, current_state,
                 previous_state, delivered, file_at_start, prev, site, notified>>

\* Lines 283-285: nothing changed.
Unchanged ==
  /\ pc = "decide"
  /\ previous_state # PyNone
  /\ SameState(current_state, previous_state)
  /\ decision' = "Unchanged"
  /\ EndRun("ok")
  /\ UNCHANGED <<file, start_date, fetched, all_by_date, max_date_seen,
                 page_num, all_days, interesting, current_state,
                 previous_state, ops, delivered, file_at_start, prev, site, notified>>

\* The message of lines 289-292.
ChangedMessage ==
  IF interesting # <<>> THEN ListMessage(start_date, interesting)
  ELSE NoneMessage(start_date)

\* Lines 287-292: the state changed and the notifier delivers.
ChangedNotify ==
  /\ pc = "decide"
  /\ previous_state # PyNone
  /\ ~SameState(current_state, previous_state)
  /\ decision' = IF interesting # <<>> THEN "ChangedToAvailable"
                 ELSE "ChangedToNone"
  /\ ops' = Append(ops, "send")
  /\ delivered' = Append(delivered, ChangedMessage)
  /\ notified' = [sent |-> TRUE, state |-> StateOfMessage(ChangedMessage)]
  /\ pc' = "changed_sent"
  /\ UNCHANGED <<file, start_date, fetched, all_by_date, max_date_seen,
                 page_num, all_days, interesting, current_state,
                 previous_state, outcome, file_at_start, prev, site>>

\* ChangedNotifyFails reaching line 294 although the notifier failed.
ChangedNotifyFailsSaves ==
  /\ pc = "decide"
  /\ previous_state # PyNone
  /\ ~SameState(current_state, previous_state)
  /\ decision' = IF interesting # <<>> THEN "ChangedToAvailable"
                 ELSE "ChangedToNone"
  /\ file' = save_state(current_state)
  /\ ops' = ops \o <<"send", "write">>
  /\ EndRun("delivery_error")
  /\ UNCHANGED <<start_date, fetched, all_by_date, max_date_seen,
                 page_num, all_days, interesting, current_state,
                 previous_state, delivered, file_at_start, prev, site, notified>>

\* Lines 287-292 with lines 204-205 raising: the notifier fails and
\* line 294 is not reached.
ChangedNotifyFails ==
  /\ pc = "decide"
  /\ previous_state # PyNone
  /\ ~SameState(current_state, previous_state)
  /\ decision' = IF interesting # <<>> THEN "ChangedToAvailable"
                 ELSE "ChangedToNone"
  /\ ops' = Append(ops, "send")
  /\ EndRun("delivery_error")
  /\ UNCHANGED <<file, start_date, fetched, all_by_date, max_date_seen,
                 page_num, all_days, interesting, current_state,
                 previous_state, delivered, file_at_start, prev, site, notified>>

\* ChangedSave leaving state.json as it was.
ChangedSaveKeepsFile ==
  /\ pc = "changed_sent"
  /\ EndRun("ok")
  /\ UNCHANGED <<file, start_date, fetched, all_by_date, max_date_seen,
                 page_num, all_days, interesting, current_state,
                 previous_state, decision, ops, delivered, file_at_start, prev,
                 site, notified>>

\* Line 294: save_state(current_state)
ChangedSave ==
  /\ pc = "changed_sent"
  /\ file' = save_state(current_state)
  /\ ops' = Append(ops, "write")
  /\ EndRun("ok")
  /\ UNCHANGED <<start_date, fetched, all_by_date, max_date_seen, page_num,
                 all_days, interesting, current_state, previous_state,
                 decision, delivered, file_at_start, prev, site, notified>>

Next ==
  \/ StartRun /\ UNCHANGED parseVars
  \/ FetchInitial /\ UNCHANGED parseVars
  \/ FetchInitialFails /\ UNCHANGED parseVars
  \/ FetchNext /\ UNCHANGED parseVars
  \/ FetchNextFails /\ UNCHANGED parseVars
  \/ Filter /\ UNCHANGED parseVars
  \/ Load /\ UNCHANGED parseVars
  \/ FirstRunSave /\ UNCHANGED parseVars
  \/ FirstRunNotify /\ UNCHANGED parseVars
  \/ FirstRunNotifyFails /\ UNCHANGED parseVars
  \/ FirstRunSilent /\ UNCHANGED parseVars
  \/ Unchanged /\ UNCHANGED parseVars
  \/ ChangedNotify /\ UNCHANGED parseVars
  \/ ChangedNotifyFails /\ UNCHANGED parseVars
  \/ ChangedSave /\ UNCHANGED parseVars

Spec == Init /\ [][Next]_vars

\* ------------------------------------------------------------------------
\* parse_availability_from_html, step by step
\* ------------------------------------------------------------------------
\* The run part of the state while only the parser is explored.
RunIdle == RunInit /\ file = AbsentFile

ParseInit ==
  /\ RunIdle
  /\ p_pc = "start"
  /\ lines \in SeqsUpTo(LineSet, MaxLines)
  /\ date_indices = <<>>
  /\ idx = 0
  /\ pos = 0
  /\ status = NoStatus
  /\ spots = NoSpots
  /\ results = <<>>

\* block of line 54 for the current idx
Block == BlockOf(lines, date_indices, idx)

\* Lines 44-50: results = [] and the header indices.
FindDates ==
  /\ p_pc = "start"
  /\ date_indices' = DateIndices(lines)
  /\ idx' = 1
  /\ p_pc' = "block"
  /\ UNCHANGED <<lines, pos, status, spots, results>>

\* Lines 52-69 with a date that parses: the block's scan begins.
BeginBlock ==
  /\ p_pc = "block"
  /\ idx <= Len(date_indices)
  /\ HeaderDate(Block[1]) # NoDate
  /\ status' = NoStatus
  /\ spots' = NoSpots
  /\ pos' = 2
  /\ p_pc' = "scan"
  /\ UNCHANGED <<lines, date_indices, idx, results>>

\* SkipBlock leaving the loop of line 52 instead of continuing it.
SkipBlockAborts ==
  /\ p_pc = "block"
  /\ idx <= Len(date_indices)
  /\ HeaderDate(Block[1]) = NoDate
  /\ idx' = Len(date_indices) + 1
  /\ UNCHANGED <<p_pc, lines, date_indices, pos, status, spots, results>>

\* Lines 63-66: strptime raises ValueError, the block is skipped.
SkipBlock ==
  /\ p_pc = "block"
  /\ idx <= Len(date_indices)
  /\ HeaderDate(Block[1]) = NoDate
  /\ idx' = idx + 1
  /\ UNCHANGED <<p_pc, lines, date_indices, pos, status, spots, results>>

\* Lines 72-82: one line of block[1:].
ScanLine ==
  /\ p_pc = "scan"
  /\ pos <= Len(Block)
  /\ status' = StepStatus(status, Block[pos])
  /\ spots' = StepSpots(spots, Block[pos])
  /\ pos' = pos + 1
  /\ UNCHANGED <<p_pc, lines, date_indices, idx, results>>

\* Line 84: results.append((dt, status, spots))
EndBlock ==
  /\ p_pc = "scan"
  /\ pos > Len(Block)
  /\ results' = Append(results, Rec(HeaderDate(Block[1]), status, spots))
  /\ idx' = idx + 1
  /\ p_pc' = "block"
  /\ UNCHANGED <<lines, date_indices, pos, status, spots>>

\* Line 86: return results
ParseReturn ==
  /\ p_pc = "block"
  /\ idx > Len(date_indices)
  /\ p_pc' = "done"
  /\ UNCHANGED <<lines, date_indices, idx, pos, status, spots, results>>

ParseNext ==
  \/ FindDates /\ UNCHANGED runVars
  \/ BeginBlock /\ UNCHANGED runVars
  \/ SkipBlock /\ UNCHANGED runVars
  \/ ScanLine /\ UNCHANGED runVars
  \/ EndBlock /\ UNCHANGED runVars
  \/ ParseReturn /\ UNCHANGED runVars

SpecParse == ParseInit /\ [][ParseNext]_vars

\* The step-by-step parser returns what the function returns.
ParseAgrees ==
  p_pc = "done" => results = parse_availability_from_html(lines)

\* ------------------------------------------------------------------------
\* The window filter of check_overland on its own
\* ------------------------------------------------------------------------
\* The dates of the explored all_days lists: before every explored start,
\* the two explored starts (the second is END_DATE), after END_DATE.
FilterDates == {<<2026, 5, 1>>, <<2026, 5, 30>>, <<2026, 5, 31>>, <<2026, 6, 1>>}

\* The (status, spots) pairs parse_availability_from_html can give a block:
\* spots is set only by a line that contains "Available", which also sets
\* the status unless it was set before.
RecValues ==
  {<<NoStatus, NoSpots>>}
    \cup ({"Available", "Fully Booked"} \X {NoSpots, 0, 1, 3})

\* What fetch_all_days can return over FilterDates: one record per date of
\* any subset of the dates, sorted by date.
AllDaysLists ==
  UNION { { SortedDays(dict, present) : dict \in [present -> RecValues] } :
          present \in SUBSET FilterDates }

FilterInit ==
  /\ pc = "filter"
  /\ file = AbsentFile
  /\ start_date \in StartDates
  /\ fetched = <<>>
  /\ all_by_date = EmptyDict
  /\ max_date_seen = NoDate
  /\ page_num = 0
  /\ all_days \in AllDaysLists
  /\ interesting = <<>>
  /\ current_state = <<>>
  /\ previous_state = PyNone
  /\ decision = "none"
  /\ outcome = "none"
  /\ ops = <<>>
  /\ delivered = <<>>
  /\ file_at_start = file
  /\ prev = NoRun
  /\ site = "listing"
  /\ notified = NotifiedBefore(file)
  /\ ParseIdle

FilterNext == Filter /\ UNCHANGED parseVars

SpecFilter == FilterInit /\ [][FilterNext]_vars

\* ------------------------------------------------------------------------
\* fetch_all_days against the calendar site
\* ------------------------------------------------------------------------
PagingInit ==
  /\ pc = "idle"
  /\ file = AbsentFile
  /\ start_date = MinDate(StartDates)
  /\ fetched = <<>>
  /\ all_by_date = EmptyDict
  /\ max_date_seen = NoDate
  /\ page_num = 0
  /\ all_days = <<>>
  /\ interesting = <<>>
  /\ current_state = <<>>
  /\ previous_state = PyNone
  /\ decision = "none"
  /\ outcome = "none"
  /\ ops = <<>>
  /\ delivered = <<>>
  /\ file_at_start = file
  /\ prev = NoRun
  /\ site = "calendar"
  /\ notified = NotifiedBefore(file)
  /\ ParseIdle

PagingNext ==
  \/ StartRun /\ UNCHANGED parseVars
  \/ FetchInitial /\ UNCHANGED parseVars
  \/ FetchNext /\ UNCHANGED parseVars

SpecPaging == PagingInit /\ [][PagingNext]_vars

\* ------------------------------------------------------------------------
\* save_state followed by load_previous_state
\* ------------------------------------------------------------------------
\* The {date, spots} dicts of the explored lists: spots is None or an int.
StateEntries ==
  {[date |-> IsoFormat(d), spots |-> n] :
     d \in StartDates, n \in {NoSpots, 0, 1, 3}}

\* The lists passed to save_state, over every content state.json may have
\* before.
StateInit ==
  /\ pc = "save"
  /\ file \in InitFiles
  /\ start_date = MinDate(StartDates)
  /\ fetched = <<>>
  /\ all_by_date = EmptyDict
  /\ max_date_seen = NoDate
  /\ page_num = 0
  /\ all_days = <<>>
  /\ interesting = <<>>
  /\ current_state \in SeqsUpTo(StateEntries, MaxEntries)
  /\ previous_state = PyNone
  /\ decision = "none"
  /\ outcome = "none"
  /\ ops = <<>>
  /\ delivered = <<>>
  /\ file_at_start = file
  /\ prev = NoRun
  /\ site = "listing"
  /\ notified = NotifiedBefore(file)
  /\ ParseIdle

\* Lines 187-193: save_state(current_state) replaces the file.
SaveState ==
  /\ pc = "save"
  /\ file' = save_state(current_state)
  /\ ops' = Append(ops, "write")
  /\ pc' = "reload"
  /\ UNCHANGED <<start_date, fetched, all_by_date, max_date_seen, page_num,
                 all_days, interesting, current_state, previous_state,
                 decision, outcome, delivered, file_at_start, prev, site,
                 notified>>

\* Lines 169-184: load_previous_state() reads it back.
LoadState ==
  /\ pc = "reload"
  /\ previous_state' = load_previous_state(file)
  /\ ops' = Append(ops, "read")
  /\ pc' = "reloaded"
  /\ UNCHANGED <<file, start_date, fetched, all_by_date, max_date_seen,
                 page_num, all_days, interesting, current_state, decision,
                 outcome, delivered, file_at_start, prev, site, notified>>

StateNext ==
  \/ SaveState /\ UNCHANGED parseVars
  \/ LoadState /\ UNCHANGED parseVars

SpecState == StateInit /\ [][StateNext]_vars

\* ========================================================================
\* Properties
\* ========================================================================
\* The elements of a sequence.
SeqToSet(seq) == {seq[i] : i \in 1..Len(seq)}

\* A run of check_overland is over.
RunEnded == pc = "idle" /\ outcome # "none"
\* A run is over that got all its pages (it reached the differ).
RunDecided == RunEnded /\ outcome # "fetch_error"

\* A decision that sends a notification.
Notifying(d, cs) ==
  \/ d = "FirstRun" /\ cs # <<>>
  \/ d \in {"ChangedToAvailable", "ChangedToNone"}

\* state.json exists but is unreadable, or is not of the snapshot structure.
IsCorrupt(f) == f.kind # "absent" /\ ~IsSnapshot(f)

\* The previous run and this one got the same pages in the same window.
SameInputsAsPrev ==
  prev.ran /\ fetched = prev.fetched /\ start_date = prev.start

\* C1: when the notifier fails in a run, state.json after the run is what it
\* was before the run, for every notifying decision (FirstRun with a
\* non-empty current, ChangedToAvailable, ChangedToNone).
C1_SnapshotKeptOnDeliveryError ==
  (RunEnded /\ outcome = "delivery_error") => file = file_at_start

\* C2: when a run reaches a notifying decision and its dispatch fails, the
\* next run on the same pages and window reaches a notifying decision for
\* the same current state again.
C2_RenotifiedAfterDeliveryError ==
  (RunDecided /\ SameInputsAsPrev /\ prev.outcome = "delivery_error")
    => /\ Notifying(decision, current_state)
       /\ current_state = prev.current_state

\* C3 as stated: a run on the pages and window of the run before it, from
\* the snapshot that run left, is Unchanged: nothing sent, nothing written.
C3_SecondRunUnchanged ==
  (RunDecided /\ SameInputsAsPrev /\ prev.outcome # "fetch_error")
    => /\ decision = "Unchanged"
       /\ delivered = <<>>
       /\ file = file_at_start

\* C3 amended: a run on the pages and window of the run before it, from the
\* snapshot that run left, is Unchanged (nothing sent, nothing written)
\* when the run before it ended without a fetch or delivery failure.
C3_SecondRunUnchangedAfterOk ==
  (RunDecided /\ SameInputsAsPrev /\ prev.outcome = "ok")
    => /\ decision = "Unchanged"
       /\ delivered = <<>>
       /\ ops = <<"read">>
       /\ file = file_at_start

C3_Witness ==
  /\ RunDecided /\ SameInputsAsPrev /\ prev.outcome = "ok"
  /\ prev.decision = "ChangedToAvailable"
  /\ decision = "Unchanged"

\* C4: with no state.json at the start of a run, the decision is FirstRun
\* and current is persisted whatever it is; an empty current is persisted
\* as the empty list and nothing is sent, a non-empty current sends exactly
\* one list notification.
C4_FirstRunPersists ==
  (RunDecided /\ file_at_start = AbsentFile)
    => /\ decision = "FirstRun"
       /\ IsSnapshot(file) /\ SnapshotOf(file) = current_state
       /\ current_state = <<>> =>
            /\ ops = <<"read", "write">>
            /\ delivered = <<>>
            /\ outcome = "ok"
       /\ current_state # <<>> =>
            /\ ops = <<"read", "write", "send">>
            /\ outcome = "ok" =>
                 delivered = <<ListMessage(start_date, interesting)>>
            /\ outcome # "ok" => delivered = <<>>

C4_Witness ==
  /\ RunDecided /\ file_at_start = AbsentFile
  /\ current_state = <<>>
  /\ IsSnapshot(file) /\ SnapshotOf(file) = <<>>

\* C5: when state.json holds a snapshot and current differs from it in any
\* way, the run takes a changed branch: ChangedToAvailable with a list
\* notification if current is non-empty, ChangedToNone with a
\* no-availability notification if it is empty; after a successful
\* dispatch the persisted snapshot equals current.
C5_ChangedBranch ==
  (RunDecided /\ IsSnapshot(file_at_start)
     /\ SnapshotOf(file_at_start) # current_state)
    => /\ decision = IF current_state # <<>> THEN "ChangedToAvailable"
                     ELSE "ChangedToNone"
       /\ Len(ops) >= 2 /\ ops[1] = "read" /\ ops[2] = "send"
       /\ outcome = "ok" =>
            /\ delivered = << IF current_state # <<>>
                                THEN ListMessage(start_date, interesting)
                                ELSE NoneMessage(start_date) >>
            /\ IsSnapshot(file) /\ SnapshotOf(file) = current_state
       /\ outcome # "ok" => delivered = <<>>

\* The dates are the same, in the same order, and a spot count changed.
C5_Witness ==
  /\ RunDecided /\ IsSnapshot(file_at_start)
  /\ Len(SnapshotOf(file_at_start)) = Len(current_state)
  /\ \A i \in 1..Len(current_state) :
       SnapshotOf(file_at_start)[i].date = current_state[i].date
  /\ \E i \in 1..Len(current_state) :
       SnapshotOf(file_at_start)[i].spots # current_state[i].spots
  /\ decision = "ChangedToAvailable" /\ outcome = "ok"
  /\ SnapshotOf(file) = current_state

\* C6: when state.json holds a snapshot and current is exactly equal to it,
\* the decision is Unchanged: nothing is sent and state.json is not written.
C6_UnchangedNoWrite ==
  (RunDecided /\ IsSnapshot(file_at_start)
     /\ SnapshotOf(file_at_start) = current_state)
    => /\ decision = "Unchanged"
       /\ outcome = "ok"
       /\ ops = <<"read">>
       /\ delivered = <<>>
       /\ file = file_at_start

C6_Witness ==
  /\ RunDecided /\ IsSnapshot(file_at_start)
  /\ current_state # <<>>
  /\ SnapshotOf(file_at_start) = current_state
  /\ decision = "Unchanged"

\* C7: when state.json exists but is unreadable or not of the snapshot
\* structure, the run takes the FirstRun branch, as for an absent file.
C7_CorruptIsFirstRun ==
  (RunDecided /\ IsCorrupt(file_at_start)) => decision = "FirstRun"

\* C8: when a page fetch of a run fails, the run is over without reading or
\* writing state.json, without a notification and without a decision; the
\* records of the pages fetched before are not filtered or compared.
C8_FetchErrorAborts ==
  outcome = "fetch_error"
    => /\ pc = "idle"
       /\ ops = <<>>
       /\ delivered = <<>>
       /\ file = file_at_start
       /\ decision = "none"
       /\ interesting = <<>> /\ current_state = <<>>

\* A pagination fetch failed after a page with records was merged.
C8_Witness ==
  /\ outcome = "fetch_error"
  /\ Len(fetched) >= 1
  /\ DOMAIN all_by_date # {}
  /\ pc = "idle" /\ ops = <<>>

\* ------------------------------------------------------------------------
\* Properties of parse_availability_from_html
\* ------------------------------------------------------------------------
\* The block whose record line 84 appended last, once the parser is back at
\* the head of the loop of line 52.
LastBlock == BlockOf(lines, date_indices, idx - 1)
BlockRecorded ==
  /\ p_pc = "block" /\ idx > 1
  /\ HeaderDate(LastBlock[1]) # NoDate

\* A line that contains a status token.
HasToken(line) == HasFullyBooked(line) \/ HasAvailable(line)

\* The status first-match-wins gives the non-header lines 2..n of a block.
FirstMatchStatus(block, n) ==
  IF \E i \in 2..n : HasToken(block[i])
    THEN LET i == CHOOSE k \in 2..n :
                    HasToken(block[k]) /\ \A j \in 2..(k - 1) : ~HasToken(block[j])
         IN IF HasFullyBooked(block[i]) THEN "Fully Booked" ELSE "Available"
    ELSE NoStatus

\* The status when "Fully Booked" anywhere wins over "Available" anywhere.
FullyBookedFirstStatus(block, n) ==
  IF \E i \in 2..n : HasFullyBooked(block[i]) THEN "Fully Booked"
  ELSE IF \E i \in 2..n : HasAvailable(block[i]) THEN "Available"
  ELSE NoStatus

\* C9 as stated: the status is fixed by the first non-header line that
\* contains a status token (Fully Booked if that line contains
\* "Fully Booked", else Available), no later line changes it, and it is
\* unset iff no non-header line contains a token.
C9_FirstMatchWins ==
  /\ p_pc = "scan" => status = FirstMatchStatus(Block, pos - 1)
  /\ BlockRecorded =>
       results[Len(results)].status = FirstMatchStatus(LastBlock, Len(LastBlock))

\* C9 amended: the status is Fully Booked iff some non-header line contains
\* "Fully Booked" (a later such line overwrites an earlier Available);
\* otherwise it is Available iff some non-header line contains "Available";
\* it is unset iff no non-header line contains either token.
C9_FullyBookedWins ==
  /\ p_pc = "scan" => status = FullyBookedFirstStatus(Block, pos - 1)
  /\ BlockRecorded =>
       results[Len(results)].status
         = FullyBookedFirstStatus(LastBlock, Len(LastBlock))

\* A recorded block with an "Available" line before a "Fully Booked" line.
C9_Witness ==
  /\ BlockRecorded
  /\ \E i \in 2..Len(LastBlock) : \E j \in (i + 1)..Len(LastBlock) :
       /\ HasAvailable(LastBlock[i]) /\ ~HasFullyBooked(LastBlock[i])
       /\ HasFullyBooked(LastBlock[j])
  /\ results[Len(results)].status = "Fully Booked"

\* C10: once a non-header line has set the status to Fully Booked, no later
\* line of the block overwrites it: "Fully Booked" followed by any number
\* of "Available" lines, with or without a count, gives Fully Booked.
C10_FullyBookedKept ==
  /\ p_pc = "scan" =>
       \A i \in 2..(pos - 1) : HasFullyBooked(Block[i]) => status = "Fully Booked"
  /\ BlockRecorded =>
       \A i \in 2..Len(LastBlock) :
         HasFullyBooked(LastBlock[i]) => results[Len(results)].status = "Fully Booked"

\* A recorded block: "Fully Booked", then "Available" lines only, one of
\* them with a count.
C10_Witness ==
  /\ BlockRecorded
  /\ Len(LastBlock) >= 3
  /\ HasFullyBooked(LastBlock[2])
  /\ \A j \in 3..Len(LastBlock) :
       HasAvailable(LastBlock[j]) /\ ~HasFullyBooked(LastBlock[j])
  /\ \E j \in 3..Len(LastBlock) : HasCount(LastBlock[j])
  /\ results[Len(results)].status = "Fully Booked"

\* The spots last-match-wins gives the non-header lines 2..n of a block:
\* the count of the last line that matches (\d+)\s+Available, if any.
LastCount(block, n) ==
  IF \E i \in 2..n : HasCount(block[i])
    THEN LET i == CHOOSE k \in 2..n :
                    HasCount(block[k]) /\ \A j \in (k + 1)..n : ~HasCount(block[j])
         IN CountOf(block[i])
    ELSE NoSpots

\* C11: spots is the integer of the last non-header line that matches
\* <integer> <whitespace> "Available", whatever the status of the block
\* (Fully Booked included); it is unset iff no non-header line matches.
C11_LastCountWins ==
  /\ p_pc = "scan" => spots = LastCount(Block, pos - 1)
  /\ BlockRecorded =>
       /\ results[Len(results)].spots = LastCount(LastBlock, Len(LastBlock))
       /\ results[Len(results)].spots = NoSpots
            <=> \A i \in 2..Len(LastBlock) : ~HasCount(LastBlock[i])

\* A recorded Fully Booked block with two counts that differ, the second
\* one kept.
C11_Witness ==
  /\ BlockRecorded
  /\ results[Len(results)].status = "Fully Booked"
  /\ \E i \in 2..Len(LastBlock) : \E j \in (i + 1)..Len(LastBlock) :
       /\ HasCount(LastBlock[i]) /\ HasCount(LastBlock[j])
       /\ CountOf(LastBlock[i]) # CountOf(LastBlock[j])
       /\ \A k \in (j + 1)..Len(LastBlock) : ~HasCount(LastBlock[k])
       /\ results[Len(results)].spots = CountOf(LastBlock[j])

\* ------------------------------------------------------------------------
\* Properties of the window filter
\* ------------------------------------------------------------------------
\* A record the window filter is to output, in the window of the run.
Wanted(r) ==
  /\ DateLE(start_date, r.dt) /\ DateLE(r.dt, END_DATE)
  /\ r.status = "Available"
  /\ (r.spots = NoSpots \/ r.spots > 0)

\* C12: the window filter outputs exactly the records with
\* start <= date <= end whose status is Available and whose spots is unset
\* or > 0, in ascending date order; a Fully Booked or Unknown record is
\* never in the output, nor an Available record with spots = 0.
C12_WindowFilter ==
  pc = "load" =>
    /\ SeqToSet(interesting) = {r \in SeqToSet(all_days) : Wanted(r)}
    /\ \A i \in 1..(Len(interesting) - 1) :
         DateLT(interesting[i].dt, interesting[i + 1].dt)
    /\ \A i \in 1..Len(interesting) :
         /\ interesting[i].status \notin {"Fully Booked", NoStatus}
         /\ interesting[i].spots # 0
    /\ Len(current_state) = Len(interesting)
    /\ \A i \in 1..Len(interesting) :
         /\ current_state[i].date = IsoFormat(interesting[i].dt)
         /\ current_state[i].spots = interesting[i].spots

\* Both bounds of the window are in the output; a Fully Booked record with
\* a count, a date after the end and a date before the start are not.
C12_Witness ==
  /\ pc = "load"
  /\ Len(interesting) = 2
  /\ interesting[1].dt = start_date /\ interesting[2].dt = END_DATE
  /\ \E r \in SeqToSet(all_days) : DateLT(END_DATE, r.dt) /\ r.status = "Available"
  /\ \E r \in SeqToSet(all_days) : DateLT(r.dt, start_date) /\ r.status = "Available"

\* The indices of the header lines of the input, and of those among them
\* whose date is no calendar date.
HeaderLines == {i \in 1..Len(lines) : IsHeader(lines[i])}
BadHeaderLines == {i \in HeaderLines : HeaderDate(lines[i]) = NoDate}

\* C13: the number of records returned is the number of blocks (one per
\* header line) minus the number of header lines whose date fails calendar
\* parsing; a block with such a date is skipped and the blocks after it are
\* still extracted; no header gives no record.
C13_RecordCount ==
  /\ p_pc # "start" => Len(date_indices) = Cardinality(HeaderLines)
  /\ p_pc = "done" =>
       /\ Len(results) = Cardinality(HeaderLines) - Cardinality(BadHeaderLines)
       /\ HeaderLines = {} => results = <<>>
       /\ \A i \in HeaderLines \ BadHeaderLines :
            \E k \in 1..Len(results) : results[k].dt = HeaderDate(lines[i])

\* A header with the date 31 June, then a header with a date: one record.
C13_Witness ==
  /\ p_pc = "done"
  /\ \E i \in BadHeaderLines : \E j \in HeaderLines \ BadHeaderLines : i < j
  /\ Len(results) = Cardinality(HeaderLines) - Cardinality(BadHeaderLines)
  /\ Len(results) >= 1

\* ------------------------------------------------------------------------
\* Properties of fetch_all_days
\* ------------------------------------------------------------------------
\* fetch_all_days has returned in the current run.
FetchReturned ==
  \/ pc \in {"filter", "load", "decide", "first_saved", "changed_sent"}
  \/ RunDecided

\* The dates of the records of a page.
PageDates(page) ==
  LET recs == parse_availability_from_html(page)
  IN {recs[i].dt : i \in 1..Len(recs)}

\* Some date of the set is END_DATE or later.
HorizonReached(dates) == \E d \in dates : DateLE(END_DATE, d)
\* The maximum of the dates before a page is not exceeded with the dates
\* of the page.
NoProgress(before, here) ==
  /\ before # {}
  /\ \A d \in here : \E e \in before : DateLE(d, e)

\* The stopping conditions of the claim at the k-th page of the run (the
\* initial page is the first): before are the dates of the pages before
\* it, here the dates of the page.
ClaimedStop(k, before, here) ==
  \/ here \subseteq before
  \/ HorizonReached(before \cup here)
  \/ k >= PageLimit

\* The stopping conditions of lines 120-159 at the k-th page, k >= 2.
LoopStop(k, before, here) ==
  \/ here = {}
  \/ HorizonReached(before \cup here)
  \/ NoProgress(before, here)
  \/ k >= PageLimit

\* The first page of the run, from the k-th on, at which the claim's
\* conditions hold, 0 if there is none; before: the dates of pages 1..k-1.
RECURSIVE FirstClaimedStop(_, _)
FirstClaimedStop(k, before) ==
  IF k > Len(fetched) THEN 0
  ELSE LET here == PageDates(fetched[k])
       IN IF ClaimedStop(k, before, here) THEN k
          ELSE FirstClaimedStop(k + 1, before \cup here)

\* The same for the conditions of the loop.
RECURSIVE FirstLoopStop(_, _)
FirstLoopStop(k, before) ==
  IF k > Len(fetched) THEN 0
  ELSE LET here == PageDates(fetched[k])
       IN IF LoopStop(k, before, here) THEN k
          ELSE FirstLoopStop(k + 1, before \cup here)

\* C14 as stated: at most PageLimit pages are fetched, and the fetch stops
\* at the first page, the initial one counted, that yields no new date,
\* brings the maximum date to END_DATE or is the PageLimit-th; it fetches
\* no page after such a page and stops for no other reason.
C14_StopsAtFirstCondition ==
  /\ Len(fetched) <= PageLimit
  /\ pc = "paging" => FirstClaimedStop(1, {}) = 0
  /\ FetchReturned => FirstClaimedStop(1, {}) = Len(fetched)

\* C14 amended: at most PageLimit pages are fetched; a second page is
\* always fetched, whatever the initial page holds; from the second page on
\* the fetch stops at the first page that yields no record, brings the
\* maximum date to END_DATE, does not move the maximum date forward, or is
\* the PageLimit-th, and for no other reason.
C14_StopsFromSecondPage ==
  /\ Len(fetched) <= PageLimit
  /\ pc = "paging" =>
       /\ Len(fetched) >= 1
       /\ FirstLoopStop(2, PageDates(fetched[1])) = 0
  /\ FetchReturned =>
       /\ Len(fetched) >= 2
       /\ FirstLoopStop(2, PageDates(fetched[1])) = Len(fetched)

\* The fetch returned at the PageLimit-th page, which brought a new
\* maximum date before END_DATE.
C14_Witness ==
  /\ FetchReturned
  /\ Len(fetched) = PageLimit
  /\ PageDates(fetched[PageLimit]) # {}
  /\ ~HorizonReached(PageDates(fetched[PageLimit]))
  /\ ~NoProgress(PageDates(fetched[PageLimit - 1]), PageDates(fetched[PageLimit]))

\* The records of the pages of the run, in fetch and document order.
RECURSIVE RecordsThrough(_)
RecordsThrough(k) ==
  IF k = 0 THEN <<>>
  ELSE RecordsThrough(k - 1) \o parse_availability_from_html(fetched[k])

\* C15: after merging there is exactly one record per distinct date, and it
\* is the record of the latest occurrence of the date in fetch and document
\* order: later pages overwrite earlier pages, later blocks of a page
\* overwrite earlier blocks of it.
C15_LatestRecordKept ==
  FetchReturned =>
    LET recs == RecordsThrough(Len(fetched))
        latest == {k \in 1..Len(recs) :
                     \A j \in (k + 1)..Len(recs) : recs[j].dt # recs[k].dt}
    IN /\ SeqToSet(all_days) = {recs[k] : k \in latest}
       /\ Len(all_days) = Cardinality({recs[k].dt : k \in 1..Len(recs)})
       /\ \A i \in 1..(Len(all_days) - 1) :
            DateLT(all_days[i].dt, all_days[i + 1].dt)

\* A date listed twice in one page with two counts and once more, fully
\* booked, in the next page: the record of the next page is kept.
C15_Witness ==
  /\ FetchReturned
  /\ LET recs == RecordsThrough(Len(fetched))
     IN \E i \in 1..Len(recs) : \E j \in (i + 1)..Len(recs) :
          \E k \in (j + 1)..Len(recs) :
            /\ recs[i].dt = recs[j].dt /\ recs[j].dt = recs[k].dt
            /\ recs[i] # recs[j] /\ recs[j] # recs[k]
            /\ \A l \in (k + 1)..Len(recs) : recs[l].dt # recs[k].dt
            /\ \E n \in 1..Len(all_days) : all_days[n] = recs[k]

\* ------------------------------------------------------------------------
\* Properties of the accesses to state.json
\* ------------------------------------------------------------------------
\* The positions of an operation in the operations of the current run.
OpsAt(op) == {i \in 1..Len(ops) : ops[i] = op}

\* C16: a run reads state.json at most once and writes it at most once, the
\* write comes after the read, and the file is written only in a run that
\* is a first run (the read gave None) or that delivered a notification.
C16_OneReadOneWrite ==
  /\ Cardinality(OpsAt("read")) <= 1
  /\ Cardinality(OpsAt("write")) <= 1
  /\ \A w \in OpsAt("write") :
       /\ \E r \in OpsAt("read") : r < w
       /\ \/ previous_state = PyNone
          \/ delivered # <<>> /\ \E s \in OpsAt("send") : s < w
  /\ OpsAt("write") = {} => file = file_at_start

\* A run that was not a first run read, notified and wrote.
C16_Witness ==
  /\ RunEnded
  /\ previous_state # PyNone
  /\ ops = <<"read", "send", "write">>
  /\ file # file_at_start

\* C17: what load_previous_state returns after save_state(current_state) is
\* a list equal to current_state, whatever state.json held before, for
\* every list of {date, spots} dicts with spots an int or None; for the
\* empty list it is the empty list and not None, so that the comparison of
\* line 283 is reached and finds the two equal.
C17_RoundTrip ==
  pc = "reloaded" =>
    /\ previous_state = PyList(current_state)
    /\ previous_state # PyNone
    /\ SameState(current_state, previous_state)

\* A list with a None and with an int was saved over another content and
\* reloaded.
C17_Witness ==
  /\ pc = "reloaded"
  /\ Len(current_state) = 2
  /\ current_state[1].spots = NoSpots
  /\ current_state[2].spots > 0
  /\ file_at_start # file
  /\ previous_state.t = "list"

\* ------------------------------------------------------------------------
\* Properties of the segmentation
\* ------------------------------------------------------------------------
\* The k-th header line of the input, counted from the top.
KthHeader(k) ==
  CHOOSE i \in HeaderLines : Cardinality({j \in HeaderLines : j < i}) = k - 1

\* The blocks 1..k of the parser, one after the other.
RECURSIVE BlocksThrough(_)
BlocksThrough(k) ==
  IF k = 0 THEN <<>>
  ELSE BlocksThrough(k - 1) \o BlockOf(lines, date_indices, k)

\* C18: there is one block per header line, in input order; block k runs
\* from the k-th header line to the line before the next header line, or
\* to the last line for the last header; it starts with a header line and
\* holds no other; the blocks one after the other are the lines from the
\* first header line to the last line, so that no line is in two blocks and
\* the lines before the first header line are in none.
C18_BlocksPartition ==
  p_pc # "start" =>
    LET n == Len(date_indices)
        block(k) == BlockOf(lines, date_indices, k)
    IN /\ n = Cardinality(HeaderLines)
       /\ \A k \in 1..n :
            /\ date_indices[k] = KthHeader(k)
            /\ block(k) =
                 SubSeq(lines, KthHeader(k),
                        IF k < n THEN KthHeader(k + 1) - 1 ELSE Len(lines))
            /\ block(k) # <<>>
            /\ IsHeader(block(k)[1])
            /\ \A i \in 2..Len(block(k)) : ~IsHeader(block(k)[i])
       /\ BlocksThrough(n) =
            IF n = 0 THEN <<>> ELSE SubSeq(lines, KthHeader(1), Len(lines))

\* An input that starts with a line that is no header and has two blocks,
\* the first of more than one line, was segmented and parsed.
C18_Witness ==
  /\ p_pc = "done"
  /\ Len(date_indices) = 2
  /\ date_indices[1] > 1
  /\ Len(BlockOf(lines, date_indices, 1)) > 1
  /\ Len(results) = 2

\* ------------------------------------------------------------------------
\* Properties of the snapshot over sequences of runs
\* ------------------------------------------------------------------------
\* C19 as stated: between runs, a snapshot in state.json is the {date,
\* spots} sequence of the most recent delivered notification.
C19_SnapshotIsLastNotified ==
  (pc = "idle" /\ IsSnapshot(file))
    => /\ notified.sent
       /\ SnapshotOf(file) = notified.state

\* C19 amended: between runs, once a notification was delivered, state.json
\* holds a snapshot and it is the {date, spots} sequence of the most recent
\* delivered notification, the empty sequence for a no-availability
\* notification.
C19_SnapshotIsLastNotifiedOnceSent ==
  (pc = "idle" /\ notified.sent)
    => /\ IsSnapshot(file)
       /\ SnapshotOf(file) = notified.state

\* After a run whose delivery failed, a run delivered a no-availability
\* notification and saved the empty sequence over a non-empty snapshot.
C19_Witness ==
  /\ RunEnded
  /\ prev.ran /\ prev.outcome = "delivery_error"
  /\ decision = "ChangedToNone"
  /\ delivered # <<>>
  /\ notified.sent /\ notified.state = <<>>
  /\ IsSnapshot(file_at_start) /\ SnapshotOf(file_at_start) # <<>>

\* date.fromisoformat of the ten characters of a "date" value.
DigitValue(c) == CHOOSE n \in 0..9 : Digit(n) = c
DateOfIso(s) ==
  << 1000 * DigitValue(s[1]) + 100 * DigitValue(s[2])
       + 10 * DigitValue(s[3]) + DigitValue(s[4]),
     10 * DigitValue(s[6]) + DigitValue(s[7]),
     10 * DigitValue(s[9]) + DigitValue(s[10]) >>

\* C20: a snapshot the run wrote is strictly ascending by date, and each of
\* its entries has a date from start_date of the run to END_DATE and spots
\* None or more than 0.
C20_WrittenSnapshotOrdered ==
  OpsAt("write") # {} =>
    /\ IsSnapshot(file)
    /\ LET snap == SnapshotOf(file)
           dt(i) == DateOfIso(snap[i].date)
       IN /\ \A i \in 1..Len(snap) :
               /\ DateLE(start_date, dt(i))
               /\ DateLE(dt(i), END_DATE)
               /\ snap[i].spots = NoSpots \/ snap[i].spots > 0
          /\ \A i \in 1..(Len(snap) - 1) : DateLT(dt(i), dt(i + 1))

\* A run wrote a snapshot of two dates, one with a count and one without,
\* and left out a date after END_DATE that was available.
C20_Witness ==
  /\ RunEnded
  /\ OpsAt("write") # {}
  /\ Len(SnapshotOf(file)) = 2
  /\ SnapshotOf(file)[1].spots > 0
  /\ SnapshotOf(file)[2].spots = NoSpots
  /\ \E i \in 1..Len(all_days) :
       DateLT(END_DATE, all_days[i].dt) /\ IsAvailable(all_days[i])

====
